---- MODULE Spec2Model ----
(***************************************************************************)
(* Model of MqttClient (ha-idrac-controller/app/mqtt_client.py): the       *)
(* connection lifecycle, the Home Assistant discovery messages and the     *)
(* state messages it hands to the paho-mqtt transport.                     *)
(*                                                                         *)
(* Text is modelled as a sequence of tokens: a literal of the source is    *)
(* one token, caller-supplied text (address, slug, suffix) is one token    *)
(* per character, so that str.replace and the f-string concatenations are  *)
(* computed and not assumed.                                               *)
(***************************************************************************)
EXTENDS Integers, Sequences, FiniteSets, TLC

VARIABLES
    is_connected,      \* self.is_connected
    device_info_dict,  \* self.device_info_dict (NoDevice models None)
    broker,            \* broker_address, port, username, password, log_level
    client,            \* the paho client: credentials, will, socket, loop thread
    op,                \* the operation that ran last and what it did
    idle,              \* history: a connect failed or the link dropped, and
                       \* connect() has not been invoked since
    subject,           \* SpecNames: the address, slug and suffix to name
    names,             \* SpecNames: the identifiers and topics derived so far
    stopped,           \* SpecStopped, history: disconnect() has returned and
                       \* connect() has not been invoked since
    watched,           \* SpecTwice: an entity descriptor, chosen initially
    announced,         \* SpecTwice, history: the discovery of the watched
                       \* descriptor handed over last under the present identity
    frame              \* SpecThreads: the publish operation a caller thread
                       \* is executing, its position and what it did so far

vars == <<is_connected, device_info_dict, broker, client, op, idle>>
namingVars == <<subject, names>>
twiceVars == <<watched, announced>>
allVars == <<vars, namingVars, stopped, twiceVars, frame>>

----------------------------------------------------------------------------
(* Bounds of the model *)

MaxIpLen == 1      \* longest device address, in characters
MaxSlugLen == 1    \* longest slug / unique-id suffix, in characters
MaxAddressLen == 2 \* SpecNames: longest device address, in characters
MaxNameLen == 2    \* SpecNames: longest slug / unique-id suffix, in characters

(* Program constants *)

KeepAlive == 60
DefaultPort == 1883
WillQos == 1

----------------------------------------------------------------------------
(* Text *)

None == <<"<None>">>              \* Python None where a str is expected
Absent == <<"<absent>">>          \* a key that is not in a dict
Truthy(s) == s /= None /\ s /= <<>>

SeqsUpTo(S, n) == UNION {[1..k -> S] : k \in 0..n}

IpChars == {"1", ".", ":"}
SlugChars == {"a", "_"}
IpAddresses == {None} \cup SeqsUpTo(IpChars, MaxIpLen)
\* slugs begin with a letter
Slugs == {s \in SeqsUpTo(SlugChars, MaxSlugLen) : s /= <<>> /\ s[1] = "a"}
Suffixes == {None} \cup SeqsUpTo(SlugChars, MaxSlugLen)

\* Faulty variant: only the first "." is replaced
ReplaceFirstDot(s) ==
    [i \in 1..Len(s) |->
        IF s[i] = "." /\ \A j \in 1..(i - 1) : s[j] /= "." THEN "_" ELSE s[i]]

\* str.replace('.', '_')
ReplaceDots(s) == [i \in 1..Len(s) |-> IF s[i] = "." THEN "_" ELSE s[i]]

\* x or default
OrElse(x, default) == IF Truthy(x) THEN x ELSE default

----------------------------------------------------------------------------
(* Device identity: set_device_info *)

NoDevice ==
    [identifiers |-> <<>>, name |-> None, model |-> None, manufacturer |-> None]

SanitizedIp(ip_address) ==
    IF Truthy(ip_address) THEN ReplaceDots(ip_address) ELSE <<"default_ip">>

DeviceInfo(manufacturer, model, ip_address) ==
    [identifiers |->
        << <<"idrac_controller_">> \o SanitizedIp(ip_address) \o <<"_device">> >>,
     name |-> <<"iDRAC Controller (">> \o OrElse(ip_address, <<"N/A">>) \o <<")">>,
     model |-> OrElse(model, <<"HA iDRAC Controller">>),
     manufacturer |-> OrElse(manufacturer, <<"HA Add-on">>)]

\* Faulty variant: the identity test always passes
DeviceInfoSetAlways(d) == TRUE

\* "if self.device_info_dict" / "if not self.device_info_dict"
DeviceInfoSet(d) == d /= NoDevice

\* subscripting None raises TypeError
SubscriptRaises(d) == d = NoDevice

\* self.device_info_dict['identifiers'][0]
Identifier(d) == d.identifiers[1]

----------------------------------------------------------------------------
(* Payloads and transport calls *)

\* A payload is a str, or the JSON text json.dumps makes of a dict: its keys
\* with their values, in insertion order (a nested dict by the paths of its
\* leaves).
Text(s) == [kind |-> "text", body |-> << <<"", s>> >>]
Json(pairs) == [kind |-> "json", body |-> pairs]
NoPayload == [kind |-> "none", body |-> <<>>]

\* the value of a key of a JSON payload
Lookup(payload, key) ==
    LET at == {i \in 1..Len(payload.body) : payload.body[i][1] = key}
    IN  IF at = {} THEN Absent ELSE payload.body[CHOOSE i \in at : TRUE][2]

\* "device": self.device_info_dict
DevicePairs(d) ==
    << <<"device.identifiers[0]", Identifier(d)>>, <<"device.name", d.name>>,
       <<"device.model", d.model>>, <<"device.manufacturer", d.manufacturer>> >>

\* json.dumps of a caller's value dict; it raises TypeError on a value that
\* is not JSON serializable
JsonRaises(v) == ~v.serializable
JsonOfValue(v) == Json(<< <<v.field, <<v.v>>>> >>)

\* one call on self.client
Call(fn, topic, payload, qos, retain) ==
    [fn |-> fn, topic |-> topic, payload |-> payload, qos |-> qos,
     retain |-> retain, host |-> "", port |-> 0, keepalive |-> 0]

StatusTopic == <<"ha_idrac_controller/status">>

WillSetCall == Call("will_set", StatusTopic, Text(<<"offline">>), WillQos, TRUE)
ConnectCall(b) ==
    [Call("connect", <<>>, NoPayload, 0, FALSE)
        EXCEPT !.host = b.host, !.port = b.port, !.keepalive = KeepAlive]
LoopStartCall == Call("loop_start", <<>>, NoPayload, 0, FALSE)
LoopStopCall == Call("loop_stop", <<>>, NoPayload, 0, FALSE)
DisconnectCall == Call("disconnect", <<>>, NoPayload, 0, FALSE)

\* the messages among a sequence of transport calls
IsPublish(c) == c.fn = "publish"
Messages(calls) == SelectSeq(calls, IsPublish)

----------------------------------------------------------------------------
(* publish *)

\* what self.client.publish does with a message: it raises, or it returns a
\* message info whose is_published() is true or false
PublishOutcomes == {"raises", "published", "not_published"}

\* Faulty variant: publish does not test the connection state
PublishGuardAlways(connected) == TRUE

\* "if self.is_connected" of publish
PublishGuard(connected) == connected

\* the transport calls of publish(topic, payload, retain, qos)
PublishCalls(connected, topic, payload, retain, qos) ==
    IF PublishGuard(connected)
    THEN <<Call("publish", topic, payload, qos, retain)>>
    ELSE <<>>

\* the value publish returns ("True" / "False")
PublishReturn(connected, outcome) ==
    IF PublishGuard(connected) /\ outcome = "published" THEN "True" ELSE "False"

\* the outcomes to consider for the calls of an operation: none when it does
\* not reach self.client.publish
OutcomesOf(calls) ==
    IF Messages(calls) = <<>> THEN {"not_called"} ELSE PublishOutcomes

\* the transport call that raised inside the calls an operation made ("": none)
PublishFailed(calls, outcome) ==
    IF Messages(calls) /= <<>> /\ outcome = "raises" THEN "publish" ELSE ""

----------------------------------------------------------------------------
(* Discovery: publish_sensor_discovery, publish_static_sensor_discoveries *)

\* the keyword arguments of publish_sensor_discovery
Descriptor(slug, name, device_class, unit, icon, template, category, suffix, state_class) ==
    [sensor_type_slug |-> slug, sensor_name |-> name,
     device_class |-> device_class, unit_of_measurement |-> unit,
     icon |-> icon, value_template |-> template,
     entity_category |-> category, unique_id_suffix |-> suffix,
     state_class |-> state_class]

\* f"{sensor_type_slug}{(unique_id_suffix if unique_id_suffix else '')}"
SlugPart(slug, suffix) == slug \o (IF Truthy(suffix) THEN suffix ELSE <<>>)

\* Faulty variant: the unique id is built from the broker address instead of
\* the device identifier
UniqueIdOfBroker(d, slug, suffix) ==
    LET base == <<broker.host>> \o <<"_">> \o slug
    IN  IF Truthy(suffix) THEN base \o <<"_">> \o suffix ELSE base

UniqueId(d, slug, suffix) ==
    LET base == Identifier(d) \o <<"_">> \o slug
    IN  IF Truthy(suffix) THEN base \o <<"_">> \o suffix ELSE base

ConfigTopic(d, slug, suffix) ==
    <<"homeassistant/sensor/">> \o Identifier(d) \o <<"/">>
        \o SlugPart(slug, suffix) \o <<"/config">>

StateTopicBase(d) == <<"ha_idrac_controller/sensor/">> \o Identifier(d)

\* the state_topic of the discovery payload
DiscoveryStateTopic(d, slug, suffix) ==
    StateTopicBase(d) \o <<"/">> \o SlugPart(slug, suffix) \o <<"/state">>

\* "if x: payload[key] = x"
Optional(key, x) == IF Truthy(x) THEN << <<key, x>> >> ELSE <<>>

\* json.dumps(payload) of publish_sensor_discovery
DiscoveryPayload(d, e) ==
    Json(<< <<"name", e.sensor_name>>,
            <<"state_topic",
              DiscoveryStateTopic(d, e.sensor_type_slug, e.unique_id_suffix)>>,
            <<"unique_id",
              UniqueId(d, e.sensor_type_slug, e.unique_id_suffix)>> >>
         \o DevicePairs(d)
         \o << <<"availability_topic", StatusTopic>>,
               <<"payload_available", <<"online">> >>,
               <<"payload_not_available", <<"offline">> >> >>
         \o Optional("device_class", e.device_class)
         \o Optional("unit_of_measurement", e.unit_of_measurement)
         \o Optional("icon", e.icon)
         \o Optional("value_template", e.value_template)
         \o Optional("entity_category", e.entity_category)
         \o Optional("state_class", e.state_class))

\* the transport calls of publish_sensor_discovery(e)
SensorDiscoveryCalls(connected, d, e) ==
    IF ~DeviceInfoSet(d) \/ SubscriptRaises(d)
    THEN <<>>
    ELSE PublishCalls(connected,
                      ConfigTopic(d, e.sensor_type_slug, e.unique_id_suffix),
                      DiscoveryPayload(d, e), TRUE, 0)

TemperatureTemplate == <<"{{ value_json.temperature | round(1) }}">>

\* Faulty variant: the power consumption entity, added last, is missing
StaticDescriptorsWithoutPower ==
    << Descriptor(<<"inlet_temp">>, <<"Inlet Temperature">>, <<"temperature">>,
                  <<"°C">>, None, TemperatureTemplate, None, None, None),
       Descriptor(<<"exhaust_temp">>, <<"Exhaust Temperature">>,
                  <<"temperature">>, <<"°C">>, None, TemperatureTemplate,
                  None, None, None),
       Descriptor(<<"target_fan_speed">>, <<"Target Fan Speed">>, None,
                  <<"%">>, <<"mdi:fan-chevron-up">>,
                  <<"{{ value_json.speed if value_json.speed is not none else 'Auto' }}">>,
                  None, None, None),
       Descriptor(<<"hottest_cpu_temp">>, <<"Hottest CPU Temp">>,
                  <<"temperature">>, <<"°C">>, None, TemperatureTemplate,
                  None, None, None) >>

\* the hardcoded entities of publish_static_sensor_discoveries, in order
StaticDescriptors ==
    << Descriptor(<<"inlet_temp">>, <<"Inlet Temperature">>, <<"temperature">>,
                  <<"°C">>, None, TemperatureTemplate, None, None, None),
       Descriptor(<<"exhaust_temp">>, <<"Exhaust Temperature">>,
                  <<"temperature">>, <<"°C">>, None, TemperatureTemplate,
                  None, None, None),
       Descriptor(<<"target_fan_speed">>, <<"Target Fan Speed">>, None,
                  <<"%">>, <<"mdi:fan-chevron-up">>,
                  <<"{{ value_json.speed if value_json.speed is not none else 'Auto' }}">>,
                  None, None, None),
       Descriptor(<<"hottest_cpu_temp">>, <<"Hottest CPU Temp">>,
                  <<"temperature">>, <<"°C">>, None, TemperatureTemplate,
                  None, None, None),
       Descriptor(<<"power_consumption">>, <<"Power Consumption">>,
                  <<"power">>, <<"W">>, <<"mdi:flash">>,
                  <<"{{ value_json.power | round(0) }}">>, None, None,
                  <<"measurement">>) >>

\* publish_sensor_discovery raises only by subscripting an unset identity,
\* which its first test excludes
SensorDiscoveryRaises(d) == ~(~DeviceInfoSet(d)) /\ SubscriptRaises(d)

RECURSIVE DiscoveryCallsOf(_, _, _)
DiscoveryCallsOf(connected, d, es) ==
    IF es = <<>>
    THEN <<>>
    ELSE SensorDiscoveryCalls(connected, d, Head(es))
            \o DiscoveryCallsOf(connected, d, Tail(es))

\* the transport calls of publish_static_sensor_discoveries()
StaticDiscoveryCalls(connected, d) ==
    IF ~connected \/ ~DeviceInfoSet(d)
    THEN <<>>
    ELSE DiscoveryCallsOf(connected, d, StaticDescriptors)

----------------------------------------------------------------------------
(* State: publish_sensor_state *)

\* Faulty variant: slug and suffix are joined by "_", as in the unique id
StateTopicSeparated(d, slug, suffix) ==
    StateTopicBase(d) \o <<"/">> \o slug
        \o (IF Truthy(suffix) THEN <<"_">> \o suffix ELSE <<>>) \o <<"/state">>

\* f"{state_topic_base}/{sensor_type_slug}{(unique_id_suffix if unique_id_suffix else '')}/state"
StateTopic(d, slug, suffix) ==
    StateTopicBase(d) \o <<"/">> \o slug
        \o (IF Truthy(suffix) THEN suffix ELSE <<>>) \o <<"/state">>

\* the transport calls of publish_sensor_state(slug, value, suffix)
SensorStateCalls(connected, d, slug, value, suffix) ==
    IF ~DeviceInfoSet(d) \/ SubscriptRaises(d) \/ JsonRaises(value)
    THEN <<>>
    ELSE PublishCalls(connected, StateTopic(d, slug, suffix),
                      JsonOfValue(value), FALSE, 0)

\* publish_sensor_state has no return statement on any path
SensorStateReturn(connected, d, outcome) == "None"

\* json.dumps(value_dict) is evaluated outside any try, after the identity test
SensorStateRaises(d, value) ==
    ~(~DeviceInfoSet(d)) /\ (SubscriptRaises(d) \/ JsonRaises(value))

----------------------------------------------------------------------------
(* Connect callback: the messages of on_connect with rc = 0 *)

ConnectivityConfigTopic(d) ==
    <<"homeassistant/binary_sensor/">> \o <<"idrac_controller_">>
        \o Identifier(d) \o <<"/status/config">>

\* json.dumps(status_config_payload)
ConnectivityPayload(d) ==
    Json(<< <<"name", <<"iDRAC Controller Connectivity">> >>,
            <<"state_topic", StatusTopic>>,
            <<"unique_id",
              <<"idrac_controller_">> \o Identifier(d) \o <<"_connectivity">> >>,
            <<"device_class", <<"connectivity">> >>,
            <<"payload_on", <<"online">> >>,
            <<"payload_off", <<"offline">> >> >>
         \o DevicePairs(d))

ConnectivityCalls(connected, d) ==
    IF DeviceInfoSet(d) /\ ~SubscriptRaises(d)
    THEN PublishCalls(connected, ConnectivityConfigTopic(d),
                      ConnectivityPayload(d), TRUE, 0)
    ELSE <<>>

OnlineCalls(connected) ==
    PublishCalls(connected, StatusTopic, Text(<<"online">>), TRUE, 0)

\* Faulty variant: the static discoveries go out before the status announcement
OnConnectCallsStaticFirst(d) ==
    StaticDiscoveryCalls(TRUE, d) \o ConnectivityCalls(TRUE, d) \o OnlineCalls(TRUE)

\* on_connect, rc = 0: self.is_connected is True when the publishes run
OnConnectCalls(d) ==
    ConnectivityCalls(TRUE, d) \o OnlineCalls(TRUE) \o StaticDiscoveryCalls(TRUE, d)


----------------------------------------------------------------------------
(* The transport (paho-mqtt client) as the component sees it *)

\* client.link is "closed" (no socket), "pending" (socket open, CONNECT sent,
\* CONNACK awaited), "up" (session accepted) or "refused" (CONNACK carried an
\* error); client.loop tells whether the loop thread runs

NoWill == Call("none", <<>>, NoPayload, 0, FALSE)

\* the effect on the client of a call that returns
ApplyCall(c, call) ==
    CASE call.fn = "will_set"   -> [c EXCEPT !.will = call]
      [] call.fn = "connect"    -> [c EXCEPT !.link = "pending"]
      [] call.fn = "loop_start" -> [c EXCEPT !.loop = TRUE]
      [] call.fn = "loop_stop"  -> [c EXCEPT !.loop = FALSE]
      [] call.fn = "disconnect" -> [c EXCEPT !.link = "closed"]
      [] OTHER                  -> c

\* the effect on the client of a call that raises: a failed open has closed
\* the previous socket, any other failed call changes nothing
FailCall(c, call) ==
    IF call.fn = "connect" THEN [c EXCEPT !.link = "closed"] ELSE c

RECURSIVE ApplyCalls(_, _)
ApplyCalls(c, calls) ==
    IF calls = <<>> THEN c ELSE ApplyCalls(ApplyCall(c, Head(calls)), Tail(calls))

\* The calls on self.client that can raise: those that do network I/O or
\* check their arguments against the connection (will_set gets constant valid
\* arguments, loop_start and loop_stop only start and join the thread).
MayRaise(call) == call.fn \in {"connect", "disconnect", "publish"}

\* where a block of calls can fail: nowhere (0), or at a call that can raise
FailPoints(steps) == {0} \cup {i \in 1..Len(steps) : MayRaise(steps[i])}

\* the calls of a block made until the failAt-th raises (0: none raises), and
\* the client after them
CallsMade(steps, failAt) ==
    IF failAt = 0 THEN steps ELSE SubSeq(steps, 1, failAt)
ClientAfter(c, steps, failAt) ==
    IF failAt = 0
    THEN ApplyCalls(c, steps)
    ELSE FailCall(ApplyCalls(c, SubSeq(steps, 1, failAt - 1)), steps[failAt])

----------------------------------------------------------------------------
(* Operations *)

\* what an operation did: its name, self.is_connected when it was invoked,
\* the callback's result code, the value returned ("None", "True", "False"),
\* whether an exception escaped to the caller, the transport call that raised
\* ("": none) with the class of its exception, and the calls it made on
\* self.client
Op(name, pre, rc, ret, raised, failed, calls) ==
    [name |-> name, pre |-> pre, rc |-> rc, ret |-> ret, raised |-> raised,
     failed |-> failed, exc |-> "", calls |-> calls]

\* the exceptions a transport call raises, by the except clause they reach
ExceptionKinds == {"ConnectionRefusedError", "OSError", "Exception"}

\* the transport call that raised when the failAt-th call of a block did
FailedCall(steps, failAt) == IF failAt = 0 THEN "" ELSE steps[failAt].fn

\* no descriptor, no transport call
NoDescriptor == Descriptor(None, None, None, None, None, None, None, None, None)
NoCall == Call("none", <<>>, NoPayload, 0, FALSE)

\* no publish operation in progress
NoFrame ==
    [fn |-> "idle", pc |-> "idle", todo |-> <<>>,
     msg |-> [root |-> "", name |-> Absent, retain |-> FALSE],
     entered |-> FALSE, tested |-> FALSE, log |-> <<>>, late |-> FALSE]

DefaultBroker ==
    [host |-> "core-mosquitto", port |-> DefaultPort, username |-> "",
     password |-> "", log_level |-> "info"]

Init ==
    /\ is_connected = FALSE
    /\ device_info_dict = NoDevice
    /\ broker = DefaultBroker
    /\ client = [username |-> "", password |-> "", will |-> NoWill,
                 link |-> "closed", loop |-> FALSE]
    /\ op = Op("init", FALSE, 0, "None", FALSE, "", <<>>)
    /\ idle = FALSE
    /\ subject = [ip_address |-> None, slug |-> <<>>, suffix |-> None]
    /\ names = <<>>
    /\ stopped = FALSE
    /\ watched = NoDescriptor
    /\ announced = [call |-> NoCall, times |-> 0]
    /\ frame = NoFrame

\* str.lower() on the log levels callers pass
Lower(l) == CASE l = "DEBUG" -> "debug" [] l = "INFO" -> "info" [] OTHER -> l

BrokerArgs ==
    { [host |-> "core-mosquitto", port |-> DefaultPort, username |-> "",
       password |-> "", log_level |-> "INFO"],
      [host |-> "mqtt.lan", port |-> DefaultPort, username |-> "idrac",
       password |-> "secret", log_level |-> "debug"] }

ConfigureBroker ==
    \E a \in BrokerArgs :
        /\ broker' = [a EXCEPT !.log_level = Lower(a.log_level)]
        /\ client' = IF a.username /= ""
                     THEN [client EXCEPT !.username = a.username,
                                         !.password = a.password]
                     ELSE client
        /\ op' = Op("configure_broker", is_connected, 0, "None", FALSE, "", <<>>)
        /\ UNCHANGED <<is_connected, device_info_dict, idle>>

Makers == { <<None, <<"PowerEdge R720">> >> }

SetDeviceInfo ==
    \E m \in Makers, ip_address \in IpAddresses :
        /\ device_info_dict' = DeviceInfo(m[1], m[2], ip_address)
        /\ op' = Op("set_device_info", is_connected, 0, "None", FALSE, "", <<>>)
        /\ UNCHANGED <<is_connected, broker, client, idle>>

\* Faulty variant: the transport is opened before the last will is registered
ConnectStepsOpenFirst(b) == <<ConnectCall(b), WillSetCall, LoopStartCall>>

\* the try block of connect, in program order
ConnectSteps(b) == <<WillSetCall, ConnectCall(b), LoopStartCall>>

\* Faulty variant: the last clause, "except Exception", is missing
ConnectRaisesUncaught(failAt, kind) ==
    failAt /= 0 /\ kind \notin {"ConnectionRefusedError", "OSError"}

\* the except clauses of connect end in "except Exception": whichever call
\* of the block raises, nothing escapes
ConnectRaises(failAt, kind) ==
    failAt /= 0 /\ kind \notin {"ConnectionRefusedError", "OSError", "Exception"}

\* Faulty variant: connect marks the instance connected once the block succeeded
ConnectStateOptimistic(connected, failAt) ==
    IF ~connected /\ failAt = 0 THEN TRUE ELSE connected

\* connect never assigns self.is_connected
ConnectState(connected, failAt) == connected

Connect ==
    \E kind \in ExceptionKinds :
        LET steps == IF is_connected THEN <<>> ELSE ConnectSteps(broker)
        IN  \E failAt \in FailPoints(steps) :
            /\ client' = ClientAfter(client, steps, failAt)
            /\ op' = [Op("connect", is_connected, 0, "None",
                         ConnectRaises(failAt, kind),
                         FailedCall(steps, failAt), CallsMade(steps, failAt))
                         EXCEPT !.exc = IF failAt = 0 THEN "" ELSE kind]
            /\ is_connected' = ConnectState(is_connected, failAt)
            /\ idle' = (failAt /= 0)
            /\ UNCHANGED <<device_info_dict, broker>>

\* the body of disconnect's if, in program order
DisconnectSteps == <<LoopStopCall, DisconnectCall>>

\* disconnect has no try: a call of it that raises ends it with the exception
DisconnectRaises(failAt) == failAt /= 0

\* self.is_connected after disconnect: False once both calls returned
DisconnectState(connected, failAt) ==
    IF connected /\ failAt = 0 THEN FALSE ELSE connected

Disconnect ==
    \E kind \in ExceptionKinds :
        LET steps == IF is_connected THEN DisconnectSteps ELSE <<>>
        IN  \E failAt \in FailPoints(steps) :
            /\ client' = ClientAfter(client, steps, failAt)
            /\ op' = [Op("disconnect", is_connected, 0, "None",
                         DisconnectRaises(failAt),
                         FailedCall(steps, failAt), CallsMade(steps, failAt))
                         EXCEPT !.exc = IF failAt = 0 THEN "" ELSE kind]
            /\ is_connected' = DisconnectState(is_connected, failAt)
            /\ UNCHANGED <<device_info_dict, broker, idle>>

RawMessages ==
    { <<StatusTopic, Text(<<"online">>), TRUE, 0>>,
      <<<<"ha_idrac_controller/log">>, Text(<<"hello">>), FALSE, 1>> }

Publish ==
    \E m \in RawMessages :
        LET calls == PublishCalls(is_connected, m[1], m[2], m[3], m[4])
        IN  \E outcome \in OutcomesOf(calls) :
            /\ op' = Op("publish", is_connected, 0,
                        PublishReturn(is_connected, outcome), FALSE,
                        PublishFailed(calls, outcome), calls)
            /\ UNCHANGED <<is_connected, device_info_dict, broker, client, idle>>

DynamicDescriptors ==
    { Descriptor(slug, <<"Fan RPM">>, None, <<"RPM">>, <<"mdi:fan">>,
                 <<"{{ value_json.rpm }}">>, <<"diagnostic">>, suffix, None) :
        slug \in Slugs, suffix \in Suffixes }

Descriptors ==
    DynamicDescriptors \cup {StaticDescriptors[i] : i \in DOMAIN StaticDescriptors}

\* publish_sensor_discovery(e)
PublishSensorDiscoveryOf(e) ==
    LET calls == SensorDiscoveryCalls(is_connected, device_info_dict, e)
    IN  \E outcome \in OutcomesOf(calls) :
            /\ op' = Op("publish_sensor_discovery", is_connected, 0, "None",
                        SensorDiscoveryRaises(device_info_dict),
                        PublishFailed(calls, outcome), calls)
            /\ UNCHANGED <<is_connected, device_info_dict, broker, client, idle>>

PublishSensorDiscovery == \E e \in Descriptors : PublishSensorDiscoveryOf(e)

PublishStaticSensorDiscoveries ==
    LET calls == StaticDiscoveryCalls(is_connected, device_info_dict)
    IN  \E outcome \in OutcomesOf(calls) :
            /\ op' = Op("publish_static_sensor_discoveries", is_connected, 0,
                        "None", FALSE, PublishFailed(calls, outcome), calls)
            /\ UNCHANGED <<is_connected, device_info_dict, broker, client, idle>>

AnyValue == [field |-> "temperature", v |-> "41.2", serializable |-> TRUE]

Values ==
    { [field |-> "temperature", v |-> "41.2", serializable |-> TRUE],
      [field |-> "raw", v |-> "b'00'", serializable |-> FALSE] }

PublishSensorState ==
    \E slug \in Slugs, suffix \in Suffixes, value \in Values :
        LET calls == SensorStateCalls(is_connected, device_info_dict, slug,
                                      value, suffix)
        IN  \E outcome \in OutcomesOf(calls) :
            /\ op' = Op("publish_sensor_state", is_connected, 0,
                        SensorStateReturn(is_connected, device_info_dict, outcome),
                        SensorStateRaises(device_info_dict, value),
                        PublishFailed(calls, outcome), calls)
            /\ UNCHANGED <<is_connected, device_info_dict, broker, client, idle>>

----------------------------------------------------------------------------
(* Transport callbacks, run by the loop thread that loop_start started *)

ResultCodes == {0, 1, 5}

\* Faulty variant: the result code is not tested
ConnectAcceptedAny(rc) == TRUE

\* "if rc == 0" of on_connect
ConnectAccepted(rc) == rc = 0

OnConnect ==
    \E rc \in ResultCodes :
        /\ client.loop /\ client.link = "pending"
        /\ IF ConnectAccepted(rc)
           THEN LET calls == OnConnectCalls(device_info_dict)
                IN  \E outcome \in OutcomesOf(calls) :
                    /\ is_connected' = TRUE
                    /\ op' = Op("on_connect", is_connected, rc, "None", FALSE,
                                PublishFailed(calls, outcome), calls)
                    /\ idle' = idle
           ELSE /\ is_connected' = FALSE
                /\ op' = Op("on_connect", is_connected, rc, "None", FALSE, "",
                            <<>>)
                /\ idle' = TRUE
        /\ client' = [client EXCEPT !.link = IF rc = 0 THEN "up" ELSE "refused"]
        /\ UNCHANGED <<device_info_dict, broker>>

\* Faulty variant: the disconnect callback also forgets the device identity
OnDisconnectForgetsDevice ==
    \E rc \in {0, 1, 5} :
        /\ client.loop /\ client.link \in {"pending", "up", "refused"}
        /\ is_connected' = FALSE
        /\ device_info_dict' = NoDevice
        /\ op' = Op("on_disconnect", is_connected, rc, "None", FALSE, "", <<>>)
        /\ idle' = TRUE
        /\ client' = [client EXCEPT !.link = "closed"]
        /\ UNCHANGED broker

\* Faulty variant: on_disconnect opens the transport again
OnDisconnectReconnects(b) == <<ConnectCall(b)>>

\* on_disconnect logs and assigns; it makes no call on self.client
OnDisconnectCalls(b) == <<>>

OnDisconnect ==
    \E rc \in ResultCodes :
        /\ client.loop /\ client.link \in {"pending", "up", "refused"}
        /\ is_connected' = FALSE
        /\ op' = Op("on_disconnect", is_connected, rc, "None", FALSE, "",
                    OnDisconnectCalls(broker))
        /\ idle' = TRUE
        /\ client' = ApplyCalls([client EXCEPT !.link = "closed"],
                                OnDisconnectCalls(broker))
        /\ UNCHANGED <<device_info_dict, broker>>

\* the loop thread opens the connection again by itself once it is lost;
\* no code of the component takes part
LoopReconnect ==
    /\ client.loop /\ client.link = "closed"
    /\ client' = [client EXCEPT !.link = "pending"]
    /\ op' = Op("loop_reconnect", is_connected, 0, "None", FALSE, "", <<>>)
    /\ UNCHANGED <<is_connected, device_info_dict, broker, idle>>

\* the variables of the other specifications, which Spec leaves at rest
atRest == <<namingVars, stopped, twiceVars, frame>>

Next ==
    \/ ConfigureBroker /\ UNCHANGED atRest
    \/ SetDeviceInfo /\ UNCHANGED atRest
    \/ Connect /\ UNCHANGED atRest
    \/ Disconnect /\ UNCHANGED atRest
    \/ Publish /\ UNCHANGED atRest
    \/ PublishSensorDiscovery /\ UNCHANGED atRest
    \/ PublishStaticSensorDiscoveries /\ UNCHANGED atRest
    \/ PublishSensorState /\ UNCHANGED atRest
    \/ OnConnect /\ UNCHANGED atRest
    \/ OnDisconnect /\ UNCHANGED atRest
    \/ LoopReconnect /\ UNCHANGED atRest

Spec == Init /\ [][Next]_allVars

----------------------------------------------------------------------------
(* Properties *)

IsOnline(m) ==
    /\ m.topic = <<"ha_idrac_controller/status">>
    /\ m.payload = [kind |-> "text", body |-> << <<"", <<"online">> >> >>]
    /\ m.retain

IsConnectivityDiscovery(m) ==
    /\ Len(m.topic) > 0 /\ m.topic[1] = "homeassistant/binary_sensor/"
    /\ m.payload.kind = "json"
    /\ Lookup(m.payload, "device_class") = <<"connectivity">>
    /\ m.retain

StaticEntityNames ==
    << <<"Inlet Temperature">>, <<"Exhaust Temperature">>,
       <<"Target Fan Speed">>, <<"Hottest CPU Temp">>,
       <<"Power Consumption">> >>

IsSensorDiscovery(m) ==
    /\ Len(m.topic) > 0 /\ m.topic[1] = "homeassistant/sensor/"
    /\ m.payload.kind = "json"

IsStaticDiscovery(m, k) ==
    /\ IsSensorDiscovery(m)
    /\ Lookup(m.payload, "name") = StaticEntityNames[k]
    /\ m.retain

\* one online message and one connectivity discovery, then the five static
\* discoveries in their order, and nothing else
FullAnnouncement(m) ==
    /\ Len(m) = 7
    /\ Cardinality({i \in 1..Len(m) : IsOnline(m[i])}) = 1
    /\ Cardinality({i \in 1..Len(m) : IsConnectivityDiscovery(m[i])}) = 1
    /\ \A i \in 1..2 : IsOnline(m[i]) \/ IsConnectivityDiscovery(m[i])
    /\ \A k \in 1..5 : IsStaticDiscovery(m[2 + k], k)

SuccessfulConnectCallback == op.name = "on_connect" /\ op.rc = 0

\* C1 (as stated): every connect callback with code 0 hands over exactly one
\* retained online message and one connectivity discovery and, after both,
\* the five static discoveries in order.
C1_EveryConnectAnnouncesAll ==
    SuccessfulConnectCallback => FullAnnouncement(Messages(op.calls))

\* C1 (amended): a connect callback with code 0 always hands over exactly one
\* retained online message; with the device identity set it hands over the
\* full announcement (one online, one connectivity discovery, then the five
\* static discoveries in order), with the identity unset the online message
\* is the only message.
C1_ConnectAnnouncement ==
    SuccessfulConnectCallback =>
        LET m == Messages(op.calls)
        IN  /\ Cardinality({i \in 1..Len(m) : IsOnline(m[i])}) = 1
            /\ IF device_info_dict /= NoDevice
               THEN FullAnnouncement(m)
               ELSE Len(m) = 1

C1_Witness ==
    /\ SuccessfulConnectCallback
    /\ device_info_dict /= NoDevice
    /\ Len(Messages(op.calls)) = 7

\* C2 (as stated): publish_sensor_state invoked while not Connected returns
\* the boolean False and raises nothing.
C2_StateReturnsFalseWhenNotConnected ==
    (op.name = "publish_sensor_state" /\ ~op.pre) =>
        (op.ret = "False" /\ ~op.raised)

\* C3: with the device identity unset, publish_sensor_discovery and
\* publish_sensor_state make no call on the transport and raise nothing,
\* whatever the connection state.
C3_NoIdentityNoPublish ==
    (/\ op.name \in {"publish_sensor_discovery", "publish_sensor_state"}
     /\ device_info_dict = NoDevice) =>
        (op.calls = <<>> /\ ~op.raised)

C3_Witness ==
    /\ op.name = "publish_sensor_discovery"
    /\ device_info_dict = NoDevice
    /\ is_connected /\ op.pre

\* C4 (as stated): a step changes the connection state only if it is a step
\* of on_connect or on_disconnect.
C4_OnlyCallbacksSetState ==
    [][is_connected' /= is_connected =>
          op'.name \in {"on_connect", "on_disconnect"}]_vars

\* C4 (amended): a step changes the connection state only if it is a step of
\* on_connect, of on_disconnect, or of disconnect(), which sets it to
\* Disconnected; connect, configure_broker, set_device_info and the publish
\* operations never change it.
C4_StateSetters ==
    [][is_connected' /= is_connected =>
          \/ op'.name \in {"on_connect", "on_disconnect"}
          \/ op'.name = "disconnect" /\ ~is_connected']_vars

C4_Witness == op.name = "disconnect" /\ op.pre /\ ~is_connected

IsWill(c) ==
    /\ c.fn = "will_set"
    /\ c.topic = <<"ha_idrac_controller/status">>
    /\ c.payload = [kind |-> "text", body |-> << <<"", <<"offline">> >> >>]
    /\ c.retain /\ c.qos = 1

\* C5: connect() invoked while Connected makes no transport call; otherwise
\* its first call registers the last will (status topic, "offline", retained,
\* QoS 1), every transport open comes after a last-will registration, and
\* the loop is started only after an open that did not fail.
C5_ConnectOrder ==
    op.name = "connect" =>
        LET c == op.calls
        IN  IF op.pre
            THEN c = <<>>
            ELSE /\ Len(c) >= 1 /\ IsWill(c[1])
                 /\ \A i \in 1..Len(c) :
                        c[i].fn = "connect" =>
                            \E j \in 1..(i - 1) : IsWill(c[j])
                 /\ \A i \in 1..Len(c) :
                        c[i].fn = "loop_start" =>
                            /\ \E j \in 1..(i - 1) : c[j].fn = "connect"
                            /\ op.failed /= "connect"
                 /\ \A i \in 1..Len(c) :
                        c[i].fn \in {"will_set", "connect", "loop_start"}

C5_Witness ==
    /\ op.name = "connect" /\ ~op.pre
    /\ Len(op.calls) = 3 /\ op.calls[3].fn = "loop_start"

\* C6: when the transport open inside connect() raises (a connection
\* refusal, an OS error, any other exception), connect() returns normally,
\* the state is Disconnected afterwards and connect() has handed no message
\* to the transport.
C6_OpenFailureContained ==
    (op.name = "connect" /\ op.failed = "connect") =>
        /\ op.exc \in {"ConnectionRefusedError", "OSError", "Exception"}
        /\ ~op.raised
        /\ ~is_connected
        /\ Messages(op.calls) = <<>>

C6_Witness ==
    /\ op.name = "connect" /\ op.failed = "connect" /\ op.exc = "Exception"
    /\ client.loop

PublicOperations ==
    {"connect", "disconnect", "publish", "publish_sensor_discovery",
     "publish_static_sensor_discoveries", "publish_sensor_state",
     "on_connect", "on_disconnect"}

\* C7 (as stated): no public operation lets an exception escape, whatever
\* the transport call it makes does: an operation one of whose transport
\* calls raised still returns normally.
C7_NoExceptionEscapes ==
    (op.name \in PublicOperations /\ op.failed /= "") => ~op.raised

\* C8: a disconnect callback with any result code, and a connect callback
\* with a non-zero code, leave the state Disconnected and hand no message to
\* the transport.
C8_FailureCallbacks ==
    (\/ op.name = "on_disconnect"
     \/ op.name = "on_connect" /\ op.rc /= 0) =>
        (~is_connected /\ Messages(op.calls) = <<>>)

C8_Witness == op.name = "on_disconnect" /\ op.rc /= 0 /\ op.pre

IsConnectionAttempt(c) == c.fn \in {"will_set", "connect", "loop_start"}

C10_DisconnectEffect ==
    op.name = "disconnect" =>
        IF op.pre
        THEN /\ \E i \in 1..Len(op.calls) : op.calls[i].fn = "loop_stop"
             /\ \E i \in 1..Len(op.calls) : op.calls[i].fn = "disconnect"
             /\ ~client.loop /\ client.link = "closed"
             /\ ~is_connected
             /\ Messages(op.calls) = <<>>
        ELSE op.calls = <<>>

\* C14 (as stated): once the device identifier is set, it has the same value
\* after every later step, whichever operation the step belongs to.
C14_IdentifierNeverChanges ==
    [][device_info_dict /= NoDevice =>
          /\ device_info_dict' /= NoDevice
          /\ device_info_dict'.identifiers = device_info_dict.identifiers]_vars

\* C14 (amended): once the device identifier is set, it stays set, and it has
\* the same value after every step of connect, disconnect, the transport
\* callbacks, configure_broker and the publish operations; only a further
\* set_device_info call gives it another value.
C14_IdentifierChangedOnlyBySetter ==
    [][device_info_dict /= NoDevice =>
          /\ device_info_dict' /= NoDevice
          /\ device_info_dict'.identifiers /= device_info_dict.identifiers
                => op'.name = "set_device_info"]_vars

C14_Witness ==
    /\ device_info_dict /= NoDevice
    /\ op.name = "on_disconnect" /\ op.pre
    /\ client.link = "closed"

\* C18 (as stated): connect() neither opens the transport nor starts the loop
\* while the loop an earlier connect() started has not been stopped.
C18_NoOpenWhileLoopRuns ==
    [][(op'.name = "connect" /\ client.loop) =>
          \A i \in 1..Len(op'.calls) :
              op'.calls[i].fn \notin {"connect", "loop_start"}]_vars

----------------------------------------------------------------------------
(* SpecStopped: the lifecycle with the history of disconnect()              *)

\* disconnect() has returned (it raised nothing) and connect() has not been
\* invoked since
TrackStopped ==
    /\ UNCHANGED <<namingVars, twiceVars, frame>>
    /\ stopped' = IF op'.name = "disconnect" THEN ~op'.raised
                  ELSE IF op'.name = "connect" THEN FALSE
                  ELSE stopped

NextStopped ==
    \/ ConfigureBroker /\ TrackStopped
    \/ SetDeviceInfo /\ TrackStopped
    \/ Connect /\ TrackStopped
    \/ Disconnect /\ TrackStopped
    \/ Publish /\ TrackStopped
    \/ PublishSensorDiscovery /\ TrackStopped
    \/ PublishStaticSensorDiscoveries /\ TrackStopped
    \/ PublishSensorState /\ TrackStopped
    \/ OnConnect /\ TrackStopped
    \/ OnDisconnect /\ TrackStopped
    \/ LoopReconnect /\ TrackStopped

SpecStopped == Init /\ [][NextStopped]_allVars

\* C17 (as stated): once disconnect() has returned, in whatever state it was
\* invoked, the state is Disconnected and stays so until connect() is invoked
\* again; no connect callback brings it back to Connected.
C17_StoppedStaysDisconnected == stopped => ~is_connected

----------------------------------------------------------------------------
(* SpecTwice: the lifecycle with the history of the discoveries of one      *)
(* entity descriptor                                                        *)

\* the descriptors watched: a hardcoded one and a caller's with a suffix
Watched ==
    { StaticDescriptors[5],
      Descriptor(<<"a">>, <<"Fan RPM">>, None, <<"RPM">>, <<"mdi:fan">>,
                 <<"{{ value_json.rpm }}">>, <<"diagnostic">>, <<"a">>, None) }

InitTwice ==
    /\ is_connected = FALSE
    /\ device_info_dict = NoDevice
    /\ broker = DefaultBroker
    /\ client = [username |-> "", password |-> "", will |-> NoWill,
                 link |-> "closed", loop |-> FALSE]
    /\ op = Op("init", FALSE, 0, "None", FALSE, "", <<>>)
    /\ idle = FALSE
    /\ subject = [ip_address |-> None, slug |-> <<>>, suffix |-> None]
    /\ names = <<>>
    /\ stopped = FALSE
    /\ watched \in Watched
    /\ announced = [call |-> NoCall, times |-> 0]
    /\ frame = NoFrame

\* a step that hands over no discovery of the watched descriptor: what was
\* announced is forgotten when the identity changes
KeepAnnounced ==
    /\ UNCHANGED <<namingVars, stopped, frame>>
    /\ announced' = IF device_info_dict' = device_info_dict
                    THEN announced ELSE [call |-> NoCall, times |-> 0]
    /\ UNCHANGED watched

\* publish_sensor_discovery(e): if e is the watched descriptor, the message it
\* hands over is the one announced last, for the first or a further time
TrackAnnounced(e) ==
    /\ UNCHANGED <<namingVars, stopped, frame>>
    /\ announced' = IF e = watched /\ Messages(op'.calls) /= <<>>
                    THEN [call |-> Messages(op'.calls)[1],
                          times |-> IF announced.times = 0 THEN 1 ELSE 2]
                    ELSE announced
    /\ UNCHANGED watched

NextTwice ==
    \/ ConfigureBroker /\ KeepAnnounced
    \/ SetDeviceInfo /\ KeepAnnounced
    \/ Connect /\ KeepAnnounced
    \/ Disconnect /\ KeepAnnounced
    \/ Publish /\ KeepAnnounced
    \/ \E e \in Descriptors : PublishSensorDiscoveryOf(e) /\ TrackAnnounced(e)
    \/ PublishStaticSensorDiscoveries /\ KeepAnnounced
    \/ PublishSensorState /\ KeepAnnounced
    \/ OnConnect /\ KeepAnnounced
    \/ OnDisconnect /\ KeepAnnounced
    \/ LoopReconnect /\ KeepAnnounced

SpecTwice == InitTwice /\ [][NextTwice]_allVars

----------------------------------------------------------------------------
(* SpecThreads: a caller thread executes the publish operations statement   *)
(* by statement, while the loop thread delivers the callbacks and the       *)
(* lifecycle owner invokes connect() and disconnect() in between.           *)
(* configure_broker, which touches nothing the publish operations read, is  *)
(* left out.                                                                *)

\* the message a publish() call is given, as far as the operation in
\* progress keeps track of it: topic root, entity name, retain flag
Summary(call) ==
    [root |-> call.topic[1], name |-> Lookup(call.payload, "name"),
     retain |-> call.retain]

\* what a publish() call of the operation in progress did: the message it was
\* given, what its test of self.is_connected found and whether it handed the
\* message to the transport. frame.late tells whether some message of the
\* operation was handed over with self.is_connected False at that moment.
LogEntry(msg, tested, handed) ==
    [root |-> msg.root, name |-> msg.name, retain |-> msg.retain,
     tested |-> tested, handed |-> handed]

\* the entities of the caller's publish_sensor_discovery and
\* publish_sensor_state calls
CallerDescriptors ==
    { Descriptor(slug, <<"Fan RPM">>, None, <<"RPM">>, <<"mdi:fan">>,
                 <<"{{ value_json.rpm }}">>, <<"diagnostic">>, suffix, None) :
        slug \in {<<"a">>}, suffix \in {None, <<"a">>} }

\* the operation goes on with its next entity, or is at its end
Finished(f) ==
    LET rest == IF f.todo = <<>> THEN <<>> ELSE Tail(f.todo)
    IN  [f EXCEPT !.todo = rest, !.msg = NoFrame.msg, !.tested = FALSE,
                  !.pc = IF rest = <<>> THEN "done" ELSE "build"]

CallPublish ==
    /\ frame.fn = "idle"
    /\ \E m \in RawMessages :
           frame' = [NoFrame EXCEPT !.fn = "publish", !.pc = "test",
                                    !.msg = Summary(Call("publish", m[1], m[2], m[4], m[3]))]
    /\ UNCHANGED <<vars, namingVars, stopped, twiceVars>>

CallSensorDiscovery ==
    /\ frame.fn = "idle"
    /\ \E e \in CallerDescriptors :
           frame' = [NoFrame EXCEPT !.fn = "publish_sensor_discovery",
                                    !.pc = "build", !.todo = <<e>>]
    /\ UNCHANGED <<vars, namingVars, stopped, twiceVars>>

CallSensorState ==
    /\ frame.fn = "idle"
    /\ \E e \in CallerDescriptors :
           frame' = [NoFrame EXCEPT !.fn = "publish_sensor_state",
                                    !.pc = "build", !.todo = <<e>>]
    /\ UNCHANGED <<vars, namingVars, stopped, twiceVars>>

CallStaticDiscoveries ==
    /\ frame.fn = "idle"
    /\ frame' = [NoFrame EXCEPT !.fn = "publish_static_sensor_discoveries",
                                !.pc = "entry"]
    /\ UNCHANGED <<vars, namingVars, stopped, twiceVars>>

\* line 160: "if not self.is_connected or not self.device_info_dict: return"
StaticEntry ==
    /\ frame.pc = "entry"
    /\ frame' = IF ~is_connected \/ ~DeviceInfoSet(device_info_dict)
                THEN [frame EXCEPT !.pc = "done"]
                ELSE [frame EXCEPT !.pc = "build", !.entered = TRUE,
                                   !.todo = StaticDescriptors]
    /\ UNCHANGED <<vars, namingVars, stopped, twiceVars>>

\* publish_sensor_discovery / publish_sensor_state up to their call of
\* self.publish: the identity test, then topic and payload
Build ==
    /\ frame.pc = "build"
    /\ LET e == Head(frame.todo)
           calls == IF frame.fn = "publish_sensor_state"
                    THEN SensorStateCalls(TRUE, device_info_dict,
                                          e.sensor_type_slug, AnyValue,
                                          e.unique_id_suffix)
                    ELSE SensorDiscoveryCalls(TRUE, device_info_dict, e)
       IN  frame' = IF calls = <<>>
                    THEN Finished(frame)
                    ELSE [frame EXCEPT !.msg = Summary(calls[1]), !.pc = "test"]
    /\ UNCHANGED <<vars, namingVars, stopped, twiceVars>>

\* line 103: "if self.is_connected:", else the warning and "return False"
Test ==
    /\ frame.pc = "test"
    /\ frame' = IF PublishGuard(is_connected)
                THEN [frame EXCEPT !.tested = is_connected, !.pc = "send"]
                ELSE Finished([frame EXCEPT !.log =
                        Append(@, LogEntry(frame.msg, is_connected, FALSE))])
    /\ UNCHANGED <<vars, namingVars, stopped, twiceVars>>

\* line 106: self.client.publish(topic, payload, qos=qos, retain=retain);
\* whether it raises or returns, publish() returns to its caller
Send ==
    /\ frame.pc = "send"
    /\ frame' = Finished([frame EXCEPT
                    !.log = Append(@, LogEntry(frame.msg, frame.tested, TRUE)),
                    !.late = @ \/ ~is_connected])
    /\ UNCHANGED <<vars, namingVars, stopped, twiceVars>>

Return ==
    /\ frame.pc = "done"
    /\ frame' = NoFrame
    /\ UNCHANGED <<vars, namingVars, stopped, twiceVars>>

NextThreads ==
    \/ CallPublish
    \/ CallSensorDiscovery
    \/ CallSensorState
    \/ CallStaticDiscoveries
    \/ StaticEntry
    \/ Build
    \/ Test
    \/ Send
    \/ Return
    \/ SetDeviceInfo /\ UNCHANGED atRest
    \/ Connect /\ UNCHANGED atRest
    \/ Disconnect /\ UNCHANGED atRest
    \/ OnConnect /\ UNCHANGED atRest
    \/ OnDisconnect /\ UNCHANGED atRest
    \/ LoopReconnect /\ UNCHANGED atRest

SpecThreads == Init /\ [][NextThreads]_allVars

\* the messages the operation in progress handed to the transport
Handed(log) == SelectSeq(log, LAMBDA x : x.handed)

StaticCompleted ==
    frame.fn = "publish_static_sensor_discoveries" /\ frame.pc = "done"

IsStaticEntry(x, k) ==
    /\ x.root = "homeassistant/sensor/"
    /\ x.name = StaticEntityNames[k]
    /\ x.retain

\* C11 (as stated): publish_static_sensor_discoveries hands over nothing when
\* its test finds the state not Connected or the identity unset, and in
\* every execution, also when a disconnect callback interleaves with it, it
\* hands over either nothing or exactly the five static discoveries, never
\* only some of them.
C11_StaticAllOrNothing ==
    StaticCompleted =>
        LET h == Handed(frame.log)
        IN  /\ ~frame.entered => h = <<>>
            /\ \/ h = <<>>
               \/ Len(h) = 5 /\ \A k \in 1..5 : IsStaticEntry(h[k], k)

\* C11 (amended): publish_static_sensor_discoveries hands over nothing when
\* its test finds the state not Connected or the identity unset; otherwise it
\* calls publish for the five static discoveries in their order, and each is
\* handed over if and only if the state is Connected when that publish tests
\* it: all five when the state stays Connected, only some of them when a
\* disconnect callback or disconnect() interleaves.
C11_StaticInOrder ==
    StaticCompleted =>
        IF frame.entered
        THEN /\ Len(frame.log) = 5
             /\ \A k \in 1..5 :
                    /\ IsStaticEntry(frame.log[k], k)
                    /\ frame.log[k].handed = frame.log[k].tested
        ELSE frame.log = <<>>

C11_Witness ==
    /\ StaticCompleted /\ frame.entered
    /\ Len(Handed(frame.log)) = 3
    /\ frame.log[1].handed /\ ~frame.log[2].handed /\ frame.log[5].handed

\* C16 (as stated): whenever a message is handed to the transport, the state
\* is Connected at that moment, in every interleaving.
C16_HandedOnlyWhileConnected == ~frame.late

\* C16 (amended): a message is handed to the transport only by a publish
\* whose own test of the state found Connected, and a publish whose test
\* found Disconnected hands over nothing; the state may have become
\* Disconnected between the test and the hand-over.
C16_HandedOnlyAfterTest ==
    \A i \in 1..Len(frame.log) :
        frame.log[i].handed = frame.log[i].tested

C16_Witness ==
    /\ frame.fn = "publish_sensor_state" /\ frame.pc = "done"
    /\ Len(frame.log) = 1
    /\ frame.log[1].handed /\ frame.log[1].tested
    /\ frame.late

----------------------------------------------------------------------------
(* SpecNames: the identifier and the topics as functions of their inputs.   *)
(* One address and one (slug, suffix) pair are drawn initially; NameEntity  *)
(* derives the names the component uses for them, NameRival those of a      *)
(* second pair on the same device.                                          *)

Addresses == {None} \cup SeqsUpTo(IpChars, MaxAddressLen)
EntitySlugs == {s \in SeqsUpTo(SlugChars, MaxNameLen) : s /= <<>> /\ s[1] = "a"}
EntitySuffixes == {None} \cup SeqsUpTo(SlugChars, MaxNameLen)

\* what set_device_info(ip_address), then on_connect, publish_sensor_discovery
\* and publish_sensor_state for (slug, suffix) put on the wire while Connected
NamesOf(ip_address, slug, suffix) ==
    LET d == DeviceInfo(None, None, ip_address)
        e == Descriptor(slug, <<"Sensor">>, None, None, None, None, None,
                        suffix, None)
        discovery == SensorDiscoveryCalls(TRUE, d, e)[1]
        state == SensorStateCalls(TRUE, d, slug, AnyValue, suffix)[1]
        connectivity == ConnectivityCalls(TRUE, d)[1]
    IN  [slug |-> slug, suffix |-> suffix,
         identifier |-> Identifier(d),
         config_topic |-> discovery.topic,
         unique_id |-> Lookup(discovery.payload, "unique_id"),
         discovery_state_topic |-> Lookup(discovery.payload, "state_topic"),
         state_topic |-> state.topic,
         connectivity_topic |-> connectivity.topic]

InitNames ==
    /\ is_connected = FALSE
    /\ device_info_dict = NoDevice
    /\ broker = DefaultBroker
    /\ client = [username |-> "", password |-> "", will |-> NoWill,
                 link |-> "closed", loop |-> FALSE]
    /\ op = Op("init", FALSE, 0, "None", FALSE, "", <<>>)
    /\ idle = FALSE
    /\ subject \in [ip_address : Addresses, slug : EntitySlugs,
                    suffix : EntitySuffixes]
    /\ names = <<>>
    /\ stopped = FALSE
    /\ watched = NoDescriptor
    /\ announced = [call |-> NoCall, times |-> 0]
    /\ frame = NoFrame

NameEntity ==
    /\ names = <<>>
    /\ names' = <<NamesOf(subject.ip_address, subject.slug, subject.suffix)>>
    /\ UNCHANGED <<subject, vars, stopped, twiceVars, frame>>

NameRival ==
    /\ Len(names) = 1
    /\ \E slug \in EntitySlugs, suffix \in EntitySuffixes :
           names' = Append(names, NamesOf(subject.ip_address, slug, suffix))
    /\ UNCHANGED <<subject, vars, stopped, twiceVars, frame>>

NextNames ==
    \/ NameEntity
    \/ NameRival

SpecNames == InitNames /\ [][NextNames]_allVars

\* the topic level that follows the root of a topic: its tokens up to the
\* next "/"
LevelSeparators == {"/", "/config", "/state", "/status/config"}
DeviceSegment(topic) ==
    LET rest == Tail(topic)
        stops == {i \in 1..Len(rest) : rest[i] \in LevelSeparators}
        stop == CHOOSE i \in stops : \A j \in stops : i <= j
    IN  SubSeq(rest, 1, stop - 1)

\* C12 (as stated): the connectivity discovery goes out on
\* homeassistant/binary_sensor/<device-id>/status/config, where <device-id>
\* is the device identifier, the same <device-id> level as in the sensor
\* config topic and in the sensor state topic, for every address.
C12_ConnectivityTopicDeviceId ==
    \A i \in 1..Len(names) :
        /\ names[i].connectivity_topic =
              <<"homeassistant/binary_sensor/">> \o names[i].identifier
                  \o <<"/status/config">>
        /\ DeviceSegment(names[i].connectivity_topic)
              = DeviceSegment(names[i].config_topic)
        /\ DeviceSegment(names[i].connectivity_topic)
              = DeviceSegment(names[i].state_topic)

Alphanumerics == {"1", "a"}

\* an address with every character of the set seps replaced by an underscore
Underscored(ip_address, seps) ==
    [i \in 1..Len(ip_address) |->
        IF ip_address[i] \in seps THEN "_" ELSE ip_address[i]]

\* idrac_controller_<a>_device
IdentifierOf(a) == <<"idrac_controller_">> \o a \o <<"_device">>

AddressGiven == subject.ip_address /= None /\ subject.ip_address /= <<>>

\* C13 (as stated): the identifier is idrac_controller_<a>_device, <a> being
\* the address with every non-alphanumeric character replaced by an
\* underscore, or default_ip when the address is absent or empty.
C13_EverySeparatorReplaced ==
    names /= <<>> =>
        names[1].identifier =
            IdentifierOf(IF AddressGiven
                         THEN Underscored(subject.ip_address,
                                          IpChars \ Alphanumerics)
                         ELSE <<"default_ip">>)

\* C13 (amended): the identifier is idrac_controller_<a>_device, <a> being
\* the address with every "." replaced by an underscore and every other
\* character kept, or default_ip when the address is absent or empty.
C13_DotsReplaced ==
    names /= <<>> =>
        names[1].identifier =
            IdentifierOf(IF AddressGiven
                         THEN Underscored(subject.ip_address, {"."})
                         ELSE <<"default_ip">>)

C13_Witness ==
    /\ names /= <<>>
    /\ AddressGiven
    /\ \E i, j \in 1..Len(subject.ip_address) :
           i < j /\ subject.ip_address[i] = "." /\ subject.ip_address[j] = "."

\* C19: for every address, slug and suffix, the state_topic written into the
\* discovery payload is the topic publish_sensor_state publishes on.
C19_StateTopicsAgree ==
    \A i \in 1..Len(names) :
        names[i].discovery_state_topic = names[i].state_topic

C19_Witness ==
    /\ Len(names) = 2
    /\ Truthy(names[1].suffix)
    /\ ~Truthy(names[2].suffix)
    /\ names[1].state_topic /= names[2].state_topic

\* two (slug, suffix) pairs are the same pair when the slugs are equal and
\* the suffixes are equal, an absent and an empty suffix both being no suffix
SamePair(a, b) ==
    a.slug = b.slug /\ OrElse(a.suffix, <<>>) = OrElse(b.suffix, <<>>)

\* C20 (as stated): on one device, two different (slug, suffix) pairs have
\* different config topics, different state topics and different unique ids.
C20_DistinctPairsDistinctNames ==
    (Len(names) = 2 /\ ~SamePair(names[1], names[2])) =>
        /\ names[1].config_topic /= names[2].config_topic
        /\ names[1].state_topic /= names[2].state_topic
        /\ names[1].discovery_state_topic /= names[2].discovery_state_topic
        /\ names[1].unique_id /= names[2].unique_id

====
